---- MODULE Spec2Model ----
(***************************************************************************)
(* Model of scripts/export_metal_from_spv.py: the pipeline that converts   *)
(* Taichi AOT .spv task files to Metal shader source (and optionally to    *)
(* .air / .metallib) and writes manifest.json.                             *)
(*                                                                         *)
(* File names, task identifiers and kernel names are sequences of          *)
(* one-character strings, so that glob matching, Path.stem, sorting and    *)
(* the f"{logical_name}.metal" concatenation are computed as Python does.  *)
(***************************************************************************)
EXTENDS Integers, Sequences, FiniteSets, TLC

\* ------------------------------------------------------------------ bounds
MaxFiles == 2
MaxKernels == 2

\* ------------------------------------------------------- character strings
\* Unicode code points of the characters used, for str / Path comparison.
Code(c) ==
  CASE c = "-" -> 45
    [] c = "." -> 46
    [] c = "a" -> 97
    [] c = "b" -> 98
    [] c = "f" -> 102
    [] c = "p" -> 112
    [] c = "s" -> 115
    [] c = "t" -> 116
    [] c = "v" -> 118
    [] c = "x" -> 120
    [] OTHER -> 127

SPV == <<".", "s", "p", "v">>
METAL == <<".", "m", "e", "t", "a", "l">>
AIR == <<".", "a", "i", "r">>
METALLIB == <<".", "m", "e", "t", "a", "l", "l", "i", "b">>

\* Python str "<" : lexicographic by code point, a proper prefix is smaller.
RECURSIVE LexLess(_, _)
LexLess(a, b) ==
  IF a = <<>> THEN b # <<>>
  ELSE IF b = <<>> THEN FALSE
  ELSE IF Code(Head(a)) # Code(Head(b)) THEN Code(Head(a)) < Code(Head(b))
  ELSE LexLess(Tail(a), Tail(b))

\* fnmatch of a name against the pattern "*.spv".
GlobMatch(name) ==
  /\ Len(name) >= Len(SPV)
  /\ SubSeq(name, Len(name) - Len(SPV) + 1, Len(name)) = SPV

\* str.rfind("."), as a 1-based position, 0 when there is no dot.
RFindDot(name) ==
  LET dots == {j \in 1..Len(name) : name[j] = "."}
  IN IF dots = {} THEN 0 ELSE CHOOSE j \in dots : \A k \in dots : k <= j

\* pathlib PurePath.stem: name[:i] when 0 < i < len(name) - 1 (i 0-based),
\* otherwise the whole name.
Stem(name) ==
  LET j == RFindDot(name)
  IN IF 1 < j /\ j < Len(name) THEN SubSeq(name, 1, j - 1) ELSE name

\* sorted(aot_dir.glob("*.spv")): paths of one directory compare by name.
RECURSIVE SortedNames(_)
SortedNames(S) ==
  IF S = {} THEN <<>>
  ELSE LET m == CHOOSE x \in S : \A y \in S \ {x} : LexLess(x, y)
       IN <<m>> \o SortedNames(S \ {m})

\* ------------------------------------------------------------ input space
\* Names a directory entry of aot_dir may have.
FileNames ==
  { <<".", "s", "p", "v">>,
    <<".", "s", "p", "v", ".", "s", "p", "v">>,
    <<"a", "-", "b", ".", "s", "p", "v">>,
    <<"a", ".", "s", "p", "v">>,
    <<"a", ".", "t", "x", "t">> }

TaskA == <<"a">>
TaskAB == <<"a", "-", "b">>
KernF == <<"f">>
\* A falsy JSON value for a "name" key: missing, null or "".
NoName == <<>>

\* A task entry of "tasks_attribs": a JSON object carrying "name", or a
\* value of another type.
TaskEntry(isDict, name) == [isDict |-> isDict, name |-> name]
\* A kernel record of "kernels".
KernelRec(isDict, name, tasks) == [isDict |-> isDict, name |-> name, tasks |-> tasks]

KernelRecs ==
  { KernelRec(TRUE, KernF, <<TaskEntry(TRUE, TaskA), TaskEntry(TRUE, TaskAB)>>),
    KernelRec(TRUE, KernF, <<TaskEntry(TRUE, TaskAB)>>),
    KernelRec(TRUE, TaskAB, <<TaskEntry(TRUE, TaskA)>>),
    KernelRec(TRUE, NoName, <<TaskEntry(TRUE, TaskAB)>>),
    KernelRec(TRUE, KernF, <<>>),
    KernelRec(TRUE, KernF, <<TaskEntry(TRUE, NoName)>>),
    KernelRec(TRUE, KernF, <<TaskEntry(FALSE, NoName)>>),
    KernelRec(FALSE, NoName, <<>>) }

SeqsUpTo(S, n) == UNION { [1..k -> S] : k \in 0..n }

\* metadata.json: absent; present but unreadable / not JSON; JSON whose top
\* level is not an object; an object with a "kernels" list (a missing key is
\* the empty list, by the .get default).
Metadata(exists, parses, isDict, kernels) ==
  [exists |-> exists, parses |-> parses, isDict |-> isDict, kernels |-> kernels]

Metadatas ==
  { Metadata(FALSE, FALSE, FALSE, <<>>),
    Metadata(TRUE, FALSE, FALSE, <<>>),
    Metadata(TRUE, TRUE, FALSE, <<>>) }
  \cup { Metadata(TRUE, TRUE, TRUE, ks) : ks \in SeqsUpTo(KernelRecs, MaxKernels) }

\* ------------------------------------------------------------------ state
VARIABLES
  pc,            \* position in main()
  args,          \* parsed command line: compile_metallib, preserve_task_names
  aotExists,     \* aot_dir.exists()
  aotFiles,      \* names of the entries of aot_dir
  metadata,      \* content of aot_dir/metadata.json
  spv_files,     \* sorted list of the .spv names
  task_to_kernel,
  can_compile,
  metal_toolchain_reason,
  probed,        \* "no" | "ready" | "notready": verdict of metal_toolchain_ready
  idx,           \* 1-based position of the for loop in spv_files
  row,           \* manifest row under construction
  manifest,      \* in-memory list of rows
  children,      \* external processes spawned and not yet waited for
  log,           \* every external process spawned, in order
  rcs,           \* return codes of the processes of log that have exited
  outDir,        \* output_dir: file name -> name of the .spv it derives from
  manifestFile,  \* output_dir/manifest.json on disk
  manifestOpens, \* number of times manifest.json was opened for writing
  exitMsg        \* why the run stopped, "" while running or on success

vars == << pc, args, aotExists, aotFiles, metadata, spv_files, task_to_kernel,
           can_compile, metal_toolchain_reason, probed, idx, row, manifest, children, log, rcs, outDir,
           manifestFile, manifestOpens, exitMsg >>

EmptyMap == <<>>
NoRow == <<>>
\* manifest.json states: none, a complete document left by an earlier run,
\* or what this run wrote.
NoFile == [present |-> FALSE, rows |-> <<>>, complete |-> FALSE, old |-> FALSE]
OldDoc == [present |-> TRUE, rows |-> <<>>, complete |-> TRUE, old |-> TRUE]
Written(rows, complete) ==
  [present |-> TRUE, rows |-> rows, complete |-> complete, old |-> FALSE]

Put(m, k, v) == [x \in (DOMAIN m) \cup {k} |-> IF x = k THEN v ELSE m[x]]
\* dict.get(key, default)
Get(m, k, d) == IF k \in DOMAIN m THEN m[k] ELSE d

Init ==
  /\ pc = "start"
  /\ args \in [compile_metallib : BOOLEAN, preserve_task_names : BOOLEAN]
  /\ aotExists \in BOOLEAN
  /\ aotFiles \in {S \in SUBSET FileNames : Cardinality(S) <= MaxFiles}
  /\ metadata \in Metadatas
  /\ ~aotExists => (aotFiles = {} /\ ~metadata.exists)
  /\ spv_files = <<>>
  /\ task_to_kernel = EmptyMap
  /\ can_compile = FALSE
  /\ metal_toolchain_reason = ""
  /\ probed = "no"
  /\ idx = 1
  /\ row = NoRow
  /\ manifest = <<>>
  /\ children = {}
  /\ log = <<>>
  /\ rcs = <<>>
  /\ outDir = EmptyMap
  /\ manifestFile \in {NoFile, OldDoc}
  /\ manifestOpens = 0
  /\ exitMsg = ""

\* raise SystemExit(msg)
Exit(msg) == pc' = "exit" /\ exitMsg' = msg

\* ---------------------------------------------------------------- actions
\* main(), up to the aot_dir check.
CheckAotDir ==
  /\ pc = "start"
  /\ IF aotExists
       THEN pc' = "check_spirv" /\ exitMsg' = exitMsg
       ELSE Exit("AOT directory not found")
  /\ UNCHANGED << args, aotExists, aotFiles, metadata, spv_files, task_to_kernel,
                  can_compile, metal_toolchain_reason, probed, idx, row, manifest, children, log, rcs, outDir,
                  manifestFile, manifestOpens >>

\* check_spirv_cross(path): which() for a bare command, the path itself
\* otherwise; the result must exist.
SpirvCrossResolved(hasSlash, whichFinds, pathExists) ==
  IF hasSlash THEN pathExists ELSE whichFinds /\ pathExists

CheckSpirvCross ==
  /\ pc = "check_spirv"
  /\ \E hasSlash \in BOOLEAN, whichFinds \in BOOLEAN, pathExists \in BOOLEAN :
       IF SpirvCrossResolved(hasSlash, whichFinds, pathExists)
         THEN pc' = "glob" /\ exitMsg' = exitMsg
         ELSE Exit("spirv-cross not found")
  /\ UNCHANGED << args, aotExists, aotFiles, metadata, spv_files, task_to_kernel,
                  can_compile, metal_toolchain_reason, probed, idx, row, manifest, children, log, rcs, outDir,
                  manifestFile, manifestOpens >>

\* Variant: the list sorted by stem (sorted(..., key=lambda p: p.stem)).
RECURSIVE SortedByStem(_)
SortedByStem(S) ==
  IF S = {} THEN <<>>
  ELSE LET m == CHOOSE x \in S : \A y \in S : ~LexLess(Stem(y), Stem(x))
       IN <<m>> \o SortedByStem(S \ {m})

ListSpvByStem(files) == SortedByStem({n \in files : GlobMatch(n)})

\* spv_files = sorted(aot_dir.glob("*.spv"))
ListSpv(files) == SortedNames({n \in files : GlobMatch(n)})

GlobSpv ==
  /\ pc = "glob"
  /\ spv_files' = ListSpv(aotFiles)
  /\ IF spv_files' = <<>>
       THEN Exit("No .spv files found")
       ELSE pc' = "metadata" /\ exitMsg' = exitMsg
  /\ UNCHANGED << args, aotExists, aotFiles, metadata, task_to_kernel,
                  can_compile, metal_toolchain_reason, probed, idx, row, manifest, children, log, rcs, outDir,
                  manifestFile, manifestOpens >>

\* The for loop over metadata.get("kernels", []); raised is TRUE when the
\* body raises an exception.
\* Variant: the last task entry anchors the kernel name (tasks[-1]).
AnchorLastTask(tasks) == tasks[Len(tasks)]

\* tasks[0]: the task entry that anchors the kernel name.
AnchorTask(tasks) == tasks[1]

RECURSIVE ScanKernels(_, _, _)
ScanKernels(ks, i, m) ==
  IF i > Len(ks) THEN [raised |-> FALSE, map |-> m]
  ELSE LET kernel == ks[i] IN
    IF ~kernel.isDict THEN [raised |-> TRUE, map |-> m]
    ELSE IF kernel.name = NoName \/ kernel.tasks = <<>>
      THEN ScanKernels(ks, i + 1, m)
    ELSE IF ~AnchorTask(kernel.tasks).isDict THEN [raised |-> TRUE, map |-> m]
    ELSE IF AnchorTask(kernel.tasks).name = NoName
      THEN ScanKernels(ks, i + 1, m)
    ELSE ScanKernels(ks, i + 1, Put(m, AnchorTask(kernel.tasks).name, kernel.name))

\* Variant: the handler keeps what was mapped before the exception (pass).
OnMetadataErrorKeep(partial) == partial

\* except Exception: task_to_kernel = {}
OnMetadataError(partial) == EmptyMap

BuildTaskToKernel(md) ==
  IF ~md.exists THEN EmptyMap
  ELSE IF ~md.parses \/ ~md.isDict THEN OnMetadataError(EmptyMap)
  ELSE LET r == ScanKernels(md.kernels, 1, EmptyMap)
       IN IF r.raised THEN OnMetadataError(r.map) ELSE r.map

LoadMetadata ==
  /\ pc = "metadata"
  /\ task_to_kernel' = BuildTaskToKernel(metadata)
  /\ pc' = "probe"
  /\ UNCHANGED << args, aotExists, aotFiles, metadata, spv_files,
                  can_compile, metal_toolchain_reason, probed, idx, row, manifest, children, log, rcs, outDir,
                  manifestFile, manifestOpens, exitMsg >>

\* An external process: the tool and the index in spv_files of the file it
\* works on (0 for the toolchain probe).
Cmd(tool, i) == [tool |-> tool, file |-> i]

\* subprocess.run spawns the child ...
Spawn(c) ==
  /\ children' = children \cup {c}
  /\ log' = Append(log, c)

\* Variant: the child is not waited for (Popen without wait).
ReapNoWait(c, rc) ==
  /\ children' = children
  /\ rcs' = Append(rcs, rc)

\* ... and returns once it has exited, with its return code.
Reap(c, rc) ==
  /\ children' = children \ {c}
  /\ rcs' = Append(rcs, rc)

\* Variant: the probe runs whatever the flag says.
WantsProbeAlways(a) == TRUE

\* Whether main() asks metal_toolchain_ready() at all.
WantsProbe(a) == a.compile_metallib

\* compile_metallib not given: can_compile stays False.
SkipProbe ==
  /\ pc = "probe"
  /\ ~WantsProbe(args)
  /\ pc' = "loop"
  /\ UNCHANGED << args, aotExists, aotFiles, metadata, spv_files, task_to_kernel,
                  can_compile, metal_toolchain_reason, probed, idx, row, manifest,
                  children, log, rcs, outDir, manifestFile, manifestOpens, exitMsg >>

\* The reason metal_toolchain_ready() returns for a non-zero probe, by the
\* kind of the combined output.
ProbeReason(output) ==
  CASE output = "missing Metal Toolchain" ->
         "Metal Toolchain missing. Run xcodebuild -downloadComponent MetalToolchain."
    [] output = "blank" -> "xcrun metal is not available."
    [] OTHER -> output

\* Variant: a not-ready toolchain only disables compilation.
AfterNotReadyContinue(reason) == [pc |-> "loop", msg |-> ""]

\* Where main() goes after a not-ready verdict.
AfterNotReady(reason) == [pc |-> "exit", msg |-> "Cannot compile .metallib"]

\* metal_toolchain_ready(): xcrun is looked up, then "xcrun metal -v" spawned.
ProbeStart ==
  /\ pc = "probe"
  /\ WantsProbe(args)
  /\ \E xcrunFound \in BOOLEAN :
       IF xcrunFound
         THEN /\ Spawn(Cmd("xcrun metal -v", 0))
              /\ pc' = "probe_wait"
              /\ UNCHANGED << probed, metal_toolchain_reason, exitMsg >>
         ELSE /\ probed' = "notready"
              /\ metal_toolchain_reason' = "xcrun not found."
              /\ pc' = AfterNotReady("xcrun not found.").pc
              /\ exitMsg' = IF pc' = "exit"
                              THEN AfterNotReady("xcrun not found.").msg
                              ELSE exitMsg
              /\ UNCHANGED << children, log >>
  /\ UNCHANGED << args, aotExists, aotFiles, metadata, spv_files, task_to_kernel,
                  can_compile, idx, row, manifest, rcs, outDir,
                  manifestFile, manifestOpens >>

ProbeExit ==
  /\ pc = "probe_wait"
  /\ \E rc \in {0, 1}, output \in {"missing Metal Toolchain", "blank", "other diagnostics"} :
       /\ Reap(Cmd("xcrun metal -v", 0), rc)
       /\ IF rc = 0
            THEN /\ can_compile' = TRUE
                 /\ metal_toolchain_reason' = ""
                 /\ probed' = "ready"
                 /\ pc' = "loop"
                 /\ exitMsg' = exitMsg
            ELSE /\ can_compile' = FALSE
                 /\ metal_toolchain_reason' = ProbeReason(output)
                 /\ probed' = "notready"
                 /\ pc' = AfterNotReady(ProbeReason(output)).pc
                 /\ exitMsg' = IF pc' = "exit"
                                 THEN AfterNotReady(ProbeReason(output)).msg
                                 ELSE exitMsg
  /\ UNCHANGED << args, aotExists, aotFiles, metadata, spv_files, task_to_kernel,
                  idx, row, manifest, log, outDir, manifestFile, manifestOpens >>

\* kernel_name = task_to_kernel.get(spv.stem, spv.stem)
KernelName(m, spv) == Get(m, Stem(spv), Stem(spv))
\* Variant: the naming flag is ignored.
LogicalNameByKernel(a, m, spv) == KernelName(m, spv)

\* logical_name = spv.stem if args.preserve_task_names else kernel_name
LogicalName(a, m, spv) ==
  IF a.preserve_task_names THEN Stem(spv) ELSE KernelName(m, spv)

Path(dir, name) == [dir |-> dir, name |-> name]

\* The row built after the translation of spv.
BaseRow(a, m, spv) ==
  [kernel |-> KernelName(m, spv),
   task |-> Stem(spv),
   spv |-> Path("aot_dir", spv),
   metal |-> Path("output_dir", LogicalName(a, m, spv) \o METAL)]

\* row["air"] = ..., row["metallib"] = ...
WithCompiled(r, a, m, spv) ==
  [k \in (DOMAIN r) \cup {"air", "metallib"} |->
     IF k = "air" THEN Path("output_dir", LogicalName(a, m, spv) \o AIR)
     ELSE IF k = "metallib" THEN Path("output_dir", LogicalName(a, m, spv) \o METALLIB)
     ELSE r[k]]

\* Variant: run() reports the failure and returns (no raise).
RunFailedContinue(next) == [pc |-> next, msg |-> ""]

\* What run(cmd) does with a non-zero return code: raise SystemExit instead
\* of going on to next.
RunFailed(next) == [pc |-> "exit", msg |-> "command failed"]

\* What a finished tool leaves in output_dir: a successful tool wrote its
\* output file, a failed one may or may not have.
ToolWrote(rc, wrote, name, src) ==
  outDir' = IF rc = 0 \/ wrote THEN Put(outDir, name, src) ELSE outDir

\* for spv in spv_files: ... run([spirv_cross, spv, "--msl", ...])
StartTranslate ==
  /\ pc = "loop"
  /\ idx <= Len(spv_files)
  /\ Spawn(Cmd("spirv-cross", idx))
  /\ pc' = "translate_wait"
  /\ UNCHANGED << args, aotExists, aotFiles, metadata, spv_files, task_to_kernel,
                  can_compile, metal_toolchain_reason, probed, idx, row, manifest,
                  rcs, outDir, manifestFile, manifestOpens, exitMsg >>

TranslateExit ==
  /\ pc = "translate_wait"
  /\ \E rc \in {0, 1}, wrote \in BOOLEAN :
       LET spv == spv_files[idx]
           next == IF can_compile THEN "compile_air" ELSE "append"
       IN /\ Reap(Cmd("spirv-cross", idx), rc)
          /\ ToolWrote(rc, wrote, LogicalName(args, task_to_kernel, spv) \o METAL, spv)
          /\ IF rc = 0
               THEN /\ row' = BaseRow(args, task_to_kernel, spv)
                    /\ pc' = next
                    /\ exitMsg' = exitMsg
               ELSE /\ row' = row
                    /\ pc' = RunFailed(next).pc
                    /\ exitMsg' = IF pc' = "exit" THEN RunFailed(next).msg ELSE exitMsg
  /\ UNCHANGED << args, aotExists, aotFiles, metadata, spv_files, task_to_kernel,
                  can_compile, metal_toolchain_reason, probed, idx, manifest, log,
                  manifestFile, manifestOpens >>

\* run(["xcrun", "metal", "-c", metal, "-o", air])
StartAir ==
  /\ pc = "compile_air"
  /\ Spawn(Cmd("xcrun metal -c", idx))
  /\ pc' = "air_wait"
  /\ UNCHANGED << args, aotExists, aotFiles, metadata, spv_files, task_to_kernel,
                  can_compile, metal_toolchain_reason, probed, idx, row, manifest,
                  rcs, outDir, manifestFile, manifestOpens, exitMsg >>

AirExit ==
  /\ pc = "air_wait"
  /\ \E rc \in {0, 1}, wrote \in BOOLEAN :
       LET spv == spv_files[idx]
       IN /\ Reap(Cmd("xcrun metal -c", idx), rc)
          /\ ToolWrote(rc, wrote, LogicalName(args, task_to_kernel, spv) \o AIR, spv)
          /\ IF rc = 0
               THEN pc' = "compile_metallib" /\ exitMsg' = exitMsg
               ELSE /\ pc' = RunFailed("compile_metallib").pc
                    /\ exitMsg' = IF pc' = "exit"
                                    THEN RunFailed("compile_metallib").msg
                                    ELSE exitMsg
  /\ UNCHANGED << args, aotExists, aotFiles, metadata, spv_files, task_to_kernel,
                  can_compile, metal_toolchain_reason, probed, idx, row, manifest, log,
                  manifestFile, manifestOpens >>

\* run(["xcrun", "metallib", air, "-o", metallib])
StartMetallib ==
  /\ pc = "compile_metallib"
  /\ Spawn(Cmd("xcrun metallib", idx))
  /\ pc' = "metallib_wait"
  /\ UNCHANGED << args, aotExists, aotFiles, metadata, spv_files, task_to_kernel,
                  can_compile, metal_toolchain_reason, probed, idx, row, manifest,
                  rcs, outDir, manifestFile, manifestOpens, exitMsg >>

MetallibExit ==
  /\ pc = "metallib_wait"
  /\ \E rc \in {0, 1}, wrote \in BOOLEAN :
       LET spv == spv_files[idx]
       IN /\ Reap(Cmd("xcrun metallib", idx), rc)
          /\ ToolWrote(rc, wrote, LogicalName(args, task_to_kernel, spv) \o METALLIB, spv)
          /\ IF rc = 0
               THEN /\ row' = WithCompiled(row, args, task_to_kernel, spv)
                    /\ pc' = "append"
                    /\ exitMsg' = exitMsg
               ELSE /\ row' = row
                    /\ pc' = RunFailed("append").pc
                    /\ exitMsg' = IF pc' = "exit" THEN RunFailed("append").msg ELSE exitMsg
  /\ UNCHANGED << args, aotExists, aotFiles, metadata, spv_files, task_to_kernel,
                  can_compile, metal_toolchain_reason, probed, idx, manifest, log,
                  manifestFile, manifestOpens >>

\* Variant: manifest.json is rewritten after every appended row.
AppendRowWritingManifest ==
  /\ pc = "append"
  /\ manifest' = Append(manifest, row)
  /\ row' = NoRow
  /\ idx' = idx + 1
  /\ pc' = "loop"
  /\ manifestFile' = Written(manifest', TRUE)
  /\ manifestOpens' = manifestOpens + 1
  /\ UNCHANGED << args, aotExists, aotFiles, metadata, spv_files, task_to_kernel,
                  can_compile, metal_toolchain_reason, probed, children, log, rcs,
                  outDir, exitMsg >>

\* manifest.append(row), and on to the next file.
AppendRow ==
  /\ pc = "append"
  /\ manifest' = Append(manifest, row)
  /\ row' = NoRow
  /\ idx' = idx + 1
  /\ pc' = "loop"
  /\ UNCHANGED << args, aotExists, aotFiles, metadata, spv_files, task_to_kernel,
                  can_compile, metal_toolchain_reason, probed, children, log, rcs, outDir,
                  manifestFile, manifestOpens, exitMsg >>

\* with manifest_path.open("w") : the file is created or truncated; an
\* OSError at open leaves it as it was.
OpenManifest ==
  /\ pc = "loop"
  /\ idx > Len(spv_files)
  /\ \E ok \in BOOLEAN :
       IF ok
         THEN /\ manifestFile' = Written(<<>>, FALSE)
              /\ manifestOpens' = manifestOpens + 1
              /\ pc' = "dump"
              /\ exitMsg' = exitMsg
         ELSE /\ Exit("OSError")
              /\ UNCHANGED << manifestFile, manifestOpens >>
  /\ UNCHANGED << args, aotExists, aotFiles, metadata, spv_files, task_to_kernel,
                  can_compile, metal_toolchain_reason, probed, idx, row, manifest, children, log, rcs, outDir >>

\* json.dump(manifest, f, ...) writes the document piece by piece into the
\* open file; an OSError part-way leaves the rows written so far.
DumpManifest ==
  /\ pc = "dump"
  /\ \E ok \in BOOLEAN, n \in 0..Len(manifest) :
       IF ok
         THEN /\ n = Len(manifest)
              /\ manifestFile' = Written(manifest, TRUE)
              /\ pc' = "done"
              /\ exitMsg' = exitMsg
         ELSE /\ manifestFile' = Written(SubSeq(manifest, 1, n), FALSE)
              /\ Exit("OSError")
  /\ UNCHANGED << args, aotExists, aotFiles, metadata, spv_files, task_to_kernel,
                  can_compile, metal_toolchain_reason, probed, idx, row, manifest, children, log, rcs, outDir,
                  manifestOpens >>

Next ==
  \/ CheckAotDir
  \/ CheckSpirvCross
  \/ GlobSpv
  \/ LoadMetadata
  \/ SkipProbe
  \/ ProbeStart
  \/ ProbeExit
  \/ StartTranslate
  \/ TranslateExit
  \/ StartAir
  \/ AirExit
  \/ StartMetallib
  \/ MetallibExit
  \/ AppendRow
  \/ OpenManifest
  \/ DumpManifest

Spec == Init /\ [][Next]_vars

\* ================================================================= claims
\* The .spv entries of the input directory and the 1-based position of one
\* of them in lexical order of file name.
SpvNames == {n \in aotFiles : GlobMatch(n)}
Rank(n) == 1 + Cardinality({m \in SpvNames : LexLess(m, n)})

Failed == \E i \in DOMAIN rcs : rcs[i] # 0
ToolsInLog == {log[i].tool : i \in DOMAIN log}
XcrunTools == {"xcrun metal -v", "xcrun metal -c", "xcrun metallib"}

\* C1: a run that ends successfully has written a complete manifest with
\* exactly one entry per .spv file of the input directory, the i-th entry
\* carrying the stem (and path) of the i-th file in lexical order of name.
ManifestOnePerInput ==
  pc = "done" =>
    /\ ~Failed
    /\ manifestFile.complete
    /\ Len(manifestFile.rows) = Cardinality(SpvNames)
    /\ Cardinality(SpvNames) >= 1
    /\ \A n \in SpvNames :
         /\ manifestFile.rows[Rank(n)].task = Stem(n)
         /\ manifestFile.rows[Rank(n)].spv = Path("aot_dir", n)

\* Two files whose order by name (a-b.spv < a.spv) is not the order of their
\* stems (a < a-b), converted and written.
WitnessManifestOnePerInput ==
  /\ pc = "done"
  /\ Len(manifestFile.rows) = 2
  /\ manifestFile.rows[1].task = TaskAB
  /\ manifestFile.rows[2].task = TaskA

\* C2: a run stopped by a fatal error (input directory or translation tool
\* not found, no .spv file, toolchain not ready, an external command
\* exiting non-zero) has never opened manifest.json, which is as it was
\* before the run.
FatalMsgs ==
  { "AOT directory not found", "spirv-cross not found", "No .spv files found",
    "Cannot compile .metallib", "command failed" }

NoManifestOnFatal ==
  (pc = "exit" /\ exitMsg \in FatalMsgs) =>
    /\ manifestOpens = 0
    /\ manifestFile \in {NoFile, OldDoc}

\* A command failed after one file had already been converted.
WitnessNoManifestOnFatal ==
  /\ pc = "exit"
  /\ exitMsg = "command failed"
  /\ Len(manifest) >= 1

\* C3: once the toolchain probe has said not-ready, the run has stopped, the
\* translation tool was never invoked and output_dir holds no file.
NotReadyConvertsNothing ==
  probed = "notready" =>
    /\ pc = "exit"
    /\ "spirv-cross" \notin ToolsInLog
    /\ DOMAIN outDir = {}
    /\ manifest = <<>>

\* The probe process ran and failed, with files waiting to be converted.
WitnessNotReadyConvertsNothing ==
  /\ probed = "notready"
  /\ Len(log) = 1
  /\ Len(spv_files) = 2
  /\ metadata.exists

\* C4: with compilation disabled no xcrun process is ever spawned, the
\* readiness probe is not asked, the run never stops on the toolchain, and no
\* manifest row carries an air or metallib path.
NoToolchainWhenDisabled ==
  ~args.compile_metallib =>
    /\ ToolsInLog \cap XcrunTools = {}
    /\ probed = "no"
    /\ ~can_compile
    /\ exitMsg # "Cannot compile .metallib"
    /\ \A i \in DOMAIN manifest : DOMAIN manifest[i] \cap {"air", "metallib"} = {}
    /\ \A i \in DOMAIN manifestFile.rows :
         DOMAIN manifestFile.rows[i] \cap {"air", "metallib"} = {}

WitnessNoToolchainWhenDisabled ==
  /\ ~args.compile_metallib
  /\ pc = "done"
  /\ Len(manifestFile.rows) = 2

\* A descriptor whose every kernel record is an object with a name and a
\* list of task objects that each have a name.
WellFormedRec(k) ==
  /\ k.isDict
  /\ k.name # NoName
  /\ \A t \in DOMAIN k.tasks : k.tasks[t].isDict /\ k.tasks[t].name # NoName

WellFormed(md) ==
  /\ md.exists /\ md.parses /\ md.isDict
  /\ \A i \in DOMAIN md.kernels : WellFormedRec(md.kernels[i])

\* The kernel records whose first task entry is the given identifier.
AnchoredAt(md, stem) ==
  {i \in DOMAIN md.kernels :
     md.kernels[i].tasks # <<>> /\ md.kernels[i].tasks[1].name = stem}

ExpectedKernel(md, stem) ==
  IF AnchoredAt(md, stem) = {} THEN stem
  ELSE LET last == CHOOSE i \in AnchoredAt(md, stem) :
                     \A j \in AnchoredAt(md, stem) : j <= i
       IN md.kernels[last].name

\* C5: with a well-formed descriptor, every manifest row's kernel is the name
\* of the kernel record whose first task is the row's task (the last such
\* record if several), and the task itself when no record has it as first
\* task, second and later tasks of a kernel included.
KernelFromFirstTask ==
  WellFormed(metadata) =>
    \A i \in DOMAIN manifest :
      manifest[i].kernel = ExpectedKernel(metadata, manifest[i].task)

\* One kernel f with tasks a, a-b: a-b.spv keeps its own name, a.spv is f.
WitnessKernelFromFirstTask ==
  /\ WellFormed(metadata)
  /\ pc = "done"
  /\ Len(metadata.kernels) = 1
  /\ Len(metadata.kernels[1].tasks) = 2
  /\ Len(manifest) = 2
  /\ manifest[1].task = TaskAB /\ manifest[1].kernel = TaskAB
  /\ manifest[2].task = TaskA /\ manifest[2].kernel = KernF

\* The descriptor departs from the documented structure.
Malformed(md) == md.exists /\ md.parses /\ ~WellFormed(md)

\* Reading the descriptor raises inside the try block: it is unreadable or
\* not JSON, its top level is not an object, a kernel record is not an
\* object, or the first task entry of a named kernel is not an object.
Raises(md) ==
  /\ md.exists
  /\ \/ ~md.parses
     \/ ~md.isDict
     \/ \E i \in DOMAIN md.kernels :
          \/ ~md.kernels[i].isDict
          \/ /\ md.kernels[i].name # NoName
             /\ md.kernels[i].tasks # <<>>
             /\ ~md.kernels[i].tasks[1].isDict

\* LoadMetadata has run.
MetadataLoaded ==
  /\ pc \notin {"start", "check_spirv", "glob", "metadata"}
  /\ pc = "exit" => exitMsg \in {"Cannot compile .metallib", "command failed", "OSError"}

KernelIsTask ==
  /\ task_to_kernel = EmptyMap
  /\ \A i \in DOMAIN manifest : manifest[i].kernel = manifest[i].task

RECURSIVE Kept(_)
Kept(ks) ==
  IF ks = <<>> THEN <<>>
  ELSE LET k == Head(ks)
       IN IF k.isDict /\ (k.name = NoName \/ k.tasks = <<>>
                          \/ (k.tasks[1].isDict /\ k.tasks[1].name = NoName))
            THEN Kept(Tail(ks))
            ELSE <<k>> \o Kept(Tail(ks))

RECURSIVE MapOf(_)
MapOf(ks) ==
  IF ks = <<>> THEN EmptyMap
  ELSE LET k == ks[Len(ks)]
           m == MapOf(SubSeq(ks, 1, Len(ks) - 1))
       IN [x \in (DOMAIN m) \cup {k.tasks[1].name} |->
             IF x = k.tasks[1].name THEN k.name ELSE m[x]]

LastWithPath(i) ==
  CHOOSE j \in DOMAIN manifest :
    /\ manifest[j].metal = manifest[i].metal
    /\ \A k \in DOMAIN manifest : manifest[k].metal = manifest[i].metal => k <= j

\* By kernel: two files with the same kernel name share one output path,
\* which holds the later file's translation once the run is done.
ByKernelOverwrites ==
  ~args.preserve_task_names =>
    /\ \A i, j \in DOMAIN manifest :
         manifest[i].kernel = manifest[j].kernel => manifest[i].metal = manifest[j].metal
    /\ pc = "done" =>
         \A i \in DOMAIN manifest :
           outDir[manifest[i].metal.name] = manifest[LastWithPath(i)].spv.name

WitnessByKernelOverwrites ==
  /\ ~args.preserve_task_names
  /\ pc = "done"
  /\ Len(manifest) = 2
  /\ manifest[1].task # manifest[2].task
  /\ manifest[1].metal = manifest[2].metal
  /\ outDir[manifest[1].metal.name] = manifest[2].spv.name

\* C8: once an external process has exited non-zero, no process is spawned
\* any more, nothing more exits, and output_dir stays as it is.
NothingAfterFailure ==
  [][Failed => (log' = log /\ rcs' = rcs /\ outDir' = outDir /\ manifest' = manifest)]_vars

\* The first compile sub-stage of the first of two files failed, its shader
\* source already written.
WitnessNothingAfterFailure ==
  /\ Failed
  /\ log[Len(log)] = Cmd("xcrun metal -c", 1)
  /\ Len(spv_files) = 2
  /\ DOMAIN outDir # {}

\* C9: a run stopped by an I/O error while writing the manifest leaves
\* manifest.json as it was before the run or complete, never truncated or
\* partly written.
ManifestWriteAtomic ==
  (pc = "exit" /\ exitMsg = "OSError") =>
    \/ manifestFile \in {NoFile, OldDoc}
    \/ manifestFile.complete

\* C10 (as claimed): the i-th manifest row corresponds to the i-th external
\* invocation of the log.
NthRowIsNthInvocation ==
  /\ Cardinality(children) <= 1
  /\ \A i \in DOMAIN manifest : i <= Len(log) /\ log[i].file = i

\* C10 (amended): at most one external process runs at a time and the log
\* follows the lexical order of the files; with compilation disabled the
\* i-th row corresponds to the i-th invocation, with compilation enabled the
\* log starts with the probe and the i-th row corresponds to invocations
\* 3i-1, 3i and 3i+1 (translation, first and second compile sub-stage).
InvocationsSequential ==
  /\ Cardinality(children) <= 1
  /\ Len(rcs) + Cardinality(children) = Len(log)
  /\ \A i, j \in DOMAIN log : i < j => log[i].file <= log[j].file
  /\ \A i \in DOMAIN manifest :
       /\ manifest[i].task = Stem(spv_files[i])
       /\ IF args.compile_metallib
            THEN /\ log[1] = Cmd("xcrun metal -v", 0)
                 /\ Len(log) >= 3 * i + 1
                 /\ log[3 * i - 1] = Cmd("spirv-cross", i)
                 /\ log[3 * i] = Cmd("xcrun metal -c", i)
                 /\ log[3 * i + 1] = Cmd("xcrun metallib", i)
            ELSE /\ Len(log) >= i
                 /\ log[i] = Cmd("spirv-cross", i)

WitnessInvocationsSequential ==
  /\ pc = "done"
  /\ args.compile_metallib
  /\ Len(manifest) = 2
  /\ Len(log) = 7

====
